---- MODULE Spec2Model ----
(***************************************************************************)
(* Model of services/translation_service.py: the TranslationService of the *)
(* Argentine-Spanish translator.  A request is one call of translate_text  *)
(* (or of _detect_language alone); it detects the language of the text     *)
(* with a marker check, an LLM detector or a statistical detector, applies *)
(* the ASCII safeguard, and hands supported or unknown text to the         *)
(* translator.                                                             *)
(*                                                                         *)
(* A Python str is a sequence of characters.  A character is a one-letter  *)
(* string; a character outside ASCII is written by its code point          *)
(* ("U+00E9").  The completion client, the statistical classifier and the  *)
(* translator are the environment: each answers with any of a set of       *)
(* outcomes, a returned str or a raised exception.                         *)
(***************************************************************************)
EXTENDS Integers, Sequences, FiniteSets, TLC

(***************************************************************************)
(* Bounds of the model.                                                    *)
(***************************************************************************)
\* Longest text drawn exhaustively over InputAlphabet.
MaxLen == 3
\* Largest value tried for settings.SHORT_INPUT_WORD_THRESHOLD.
MaxThreshold == 2

(***************************************************************************)
(* Characters.                                                             *)
(***************************************************************************)
AsciiLower == <<"a", "b", "c", "d", "e", "f", "g", "h", "i", "j", "k", "l", "m",
                "n", "o", "p", "q", "r", "s", "t", "u", "v", "w", "x", "y", "z">>
AsciiUpper == <<"A", "B", "C", "D", "E", "F", "G", "H", "I", "J", "K", "L", "M",
                "N", "O", "P", "Q", "R", "S", "T", "U", "V", "W", "X", "Y", "Z">>
AsciiOther == {" ", "\n", "\t", "'", ",", "?", "!", ".", ":", "(", ")", "-", "1"}

Range(s) == {s[i] : i \in DOMAIN s}

LowerLetters == Range(AsciiLower)
UpperLetters == Range(AsciiUpper)
AsciiChars == LowerLetters \cup UpperLetters \cup AsciiOther
SpaceChars == {" ", "\n", "\t", "U+00A0"}

\* ord(c) < 128
IsAscii(c) == c \in AsciiChars

\* str.isspace() of one character: what strip() removes and split() splits
\* on.  U+00A0 (no-break space) is whitespace outside ASCII.
IsSpace(c) == c \in SpaceChars

\* The class [a-z] of ISO_639_1_PATTERN.
IsLowerAZ(c) == c \in LowerLetters

\* str.lower() of one character; U+0130 lowers to two characters.
LowerChar(c) ==
    IF c \in UpperLetters
    THEN <<AsciiLower[CHOOSE i \in DOMAIN AsciiUpper : AsciiUpper[i] = c]>>
    ELSE IF c = "U+00C9" THEN <<"U+00E9">>
    ELSE IF c = "U+00D1" THEN <<"U+00F1">>
    ELSE IF c = "U+0130" THEN <<"i", "U+0307">>
    ELSE <<c>>

\* str.upper() of one character (used to build inputs only).
UpperChar(c) ==
    IF c \in LowerLetters
    THEN AsciiUpper[CHOOSE i \in DOMAIN AsciiLower : AsciiLower[i] = c]
    ELSE IF c = "U+00E9" THEN "U+00C9"
    ELSE c

(***************************************************************************)
(* str operations.                                                         *)
(***************************************************************************)
RECURSIVE LowerEach(_)
LowerEach(s) == IF s = <<>> THEN <<>> ELSE LowerChar(Head(s)) \o LowerEach(Tail(s))

\* str.lower(): character by character; the result is longer than s when a
\* character lowers to two.
lower(s) ==
    IF \A i \in DOMAIN s : s[i] # "U+0130"
    THEN [i \in DOMAIN s |-> LowerChar(s[i])[1]]
    ELSE LowerEach(s)

upper(s) == [i \in DOMAIN s |-> UpperChar(s[i])]

RECURSIVE lstrip(_)
lstrip(s) == IF s # <<>> /\ IsSpace(Head(s)) THEN lstrip(Tail(s)) ELSE s

RECURSIVE rstrip(_)
rstrip(s) ==
    IF s # <<>> /\ IsSpace(s[Len(s)]) THEN rstrip(SubSeq(s, 1, Len(s) - 1)) ELSE s

strip(s) == rstrip(lstrip(s))

\* len(text.split()): the number of maximal runs of non-whitespace.
split_len(s) ==
    Cardinality({i \in DOMAIN s : ~IsSpace(s[i]) /\ (i = 1 \/ IsSpace(s[i - 1]))})

\* marker in text
Contains(s, sub) ==
    \E i \in 0..(Len(s) - Len(sub)) : SubSeq(s, i + 1, i + Len(sub)) = sub

\* text[:n]
Prefix(s, n) == IF Len(s) > n THEN SubSeq(s, 1, n) ELSE s

(***************************************************************************)
(* Module constants of translation_service.py.                             *)
(***************************************************************************)
SUPPORTED_LANGS == {<<"e", "n">>, <<"e", "s">>}

UNKNOWN_LANG_CODE == <<"u", "n", "k", "n", "o", "w", "n">>

\* ISO_639_1_PATTERN.match(s) for re.compile(r"^[a-z]{2}$"): two characters
\* of [a-z] and then the end of the string; Python's $ also matches just
\* before a newline that ends the string.
ISO_639_1_PATTERN_match(s) ==
    /\ Len(s) \in {2, 3}
    /\ IsLowerAZ(s[1])
    /\ IsLowerAZ(s[2])
    /\ Len(s) = 3 => s[3] = "\n"

\* The list english_markers of _detect_language.
english_markers ==
    << <<"l", "e", "t", "'", "s">>,
       <<"l", "e", "t", " ", "u", "s">>,
       <<"w", "e", "'", "l", "l">>,
       <<"w", "e", " ", "w", "i", "l", "l">>,
       <<"i", "'", "m">>,
       <<"i", " ", "a", "m">>,
       <<"y", "o", "u", "'", "r", "e">>,
       <<"y", "o", "u", " ", "a", "r", "e">> >>

\* Characters of the text sent to the completion client.
DETECTION_TEXT_LIMIT == 100

\* The ASCII ratio 0.9 of the safeguard, as the fraction 9 / 10.
ASCII_RATIO_NUM == 9
ASCII_RATIO_DEN == 10

EMPTY_TEXT_PROMPT ==
    <<"P", "l", "e", "a", "s", "e", " ", "p", "r", "o", "v", "i", "d", "e", " ",
      "s", "o", "m", "e", " ", "t", "e", "x", "t", " ", "t", "o", " ", "t", "r",
      "a", "n", "s", "l", "a", "t", "e", ".">>

UNSUPPORTED_PREFIX ==
    <<"S", "o", "r", "r", "y", ",", " ", "I", " ", "c", "u", "r", "r", "e", "n",
      "t", "l", "y", " ", "o", "n", "l", "y", " ", "s", "u", "p", "p", "o", "r",
      "t", " ", "E", "n", "g", "l", "i", "s", "h", " ", "(", "'", "e", "n", "'",
      ")", " ", "a", "n", "d", " ", "S", "p", "a", "n", "i", "s", "h", " ", "(",
      "'", "e", "s", "'", ")", ".", " ", "D", "e", "t", "e", "c", "t", "e", "d",
      ":", " ">>

(***************************************************************************)
(* Results and exceptions.  A call ends by returning a str or by raising   *)
(* an exception; an exception has a class, a message and a __cause__.      *)
(***************************************************************************)
NoCause == [type |-> "none", msg |-> "none"]
NoError == [type |-> "none", msg |-> "none", cause |-> NoCause]
Error(type, msg) == [type |-> type, msg |-> msg, cause |-> NoCause]

Pending == [kind |-> "pending", value |-> <<>>, error |-> NoError]
Returned(v) == [kind |-> "return", value |-> v, error |-> NoError]
Raised(e) == [kind |-> "raise", value |-> <<>>, error |-> e]

\* raise AppError(msg) from e
AppError(msg, e) ==
    [type |-> "AppError", msg |-> msg, cause |-> [type |-> e.type, msg |-> e.msg]]

\* What `except Exception` catches.  asyncio.CancelledError derives from
\* BaseException alone (Python 3.8 and later), so it is not caught.
IsException(e) ==
    e.type \in {"TranslationError", "AppError", "LangDetectException",
                "TimeoutError", "TypeError", "MemoryError"}

(***************************************************************************)
(* The pure steps of the service.                                          *)
(***************************************************************************)
\* is_blank as `not text`, without the strip
is_blank_unstripped(text) == text = <<>>

\* translate_text: `not text.strip()`
is_blank(text) == strip(text) = <<>>

\* has_english_marker on the text as given, not lower-cased
has_english_marker_case_sensitive(text) ==
    \E i \in DOMAIN english_markers : Contains(text, english_markers[i])

\* _detect_language: the loop over english_markers on text.lower()
has_english_marker(text) ==
    \E i \in DOMAIN english_markers : Contains(lower(text), english_markers[i])

\* is_short_input with < for <=
is_short_input_exclusive(text, word_threshold) == split_len(text) < word_threshold

\* _detect_language: word_count <= settings.SHORT_INPUT_WORD_THRESHOLD
is_short_input(text, word_threshold) == split_len(text) <= word_threshold

\* _detect_language_llm: the text formatted into the prompt
detection_text(text) == Prefix(text, DETECTION_TEXT_LIMIT)

\* _detect_language_llm after the completion client answered with `o`
llm_detector_result(o) ==
    IF o.kind = "return"
    THEN LET detected_lang == lower(strip(o.value))
         IN  IF detected_lang = UNKNOWN_LANG_CODE \/ ISO_639_1_PATTERN_match(detected_lang)
             THEN Returned(detected_lang)
             ELSE Returned(UNKNOWN_LANG_CODE)
    ELSE IF IsException(o.error)
         THEN Returned(UNKNOWN_LANG_CODE)
         ELSE Raised(o.error)

\* statistical_detector_result returning detected_lang.lower() whether or
\* not the pattern matched
statistical_detector_result_unvalidated(o) ==
    IF o.kind = "return"
    THEN Returned(lower(o.value))
    ELSE IF o.error.type = "LangDetectException" \/ IsException(o.error)
         THEN Returned(UNKNOWN_LANG_CODE)
         ELSE Raised(o.error)

\* _detect_language_statistical when detect(text) answered with `o`
statistical_detector_result(o) ==
    IF o.kind = "return"
    THEN IF ISO_639_1_PATTERN_match(o.value)
         THEN Returned(lower(o.value))
         ELSE Returned(UNKNOWN_LANG_CODE)
    ELSE IF o.error.type = "LangDetectException" \/ IsException(o.error)
         THEN Returned(UNKNOWN_LANG_CODE)
         ELSE Raised(o.error)

\* ascii_ratio_high with >= for > in the comparison with 0.9
ascii_ratio_high_inclusive(text) ==
    LET ascii_chars == Cardinality({i \in DOMAIN text : IsAscii(text[i])})
        total_chars == IF text # <<>> THEN Len(text) ELSE 1
    IN  ascii_chars * ASCII_RATIO_DEN >= ASCII_RATIO_NUM * total_chars

\* ascii_ratio_high with the floor division ascii_chars // total_chars
ascii_ratio_high_floor_division(text) ==
    LET ascii_chars == Cardinality({i \in DOMAIN text : IsAscii(text[i])})
        total_chars == IF text # <<>> THEN Len(text) ELSE 1
    IN  (ascii_chars \div total_chars) * ASCII_RATIO_DEN > ASCII_RATIO_NUM

\* _detect_language: ascii_ratio > 0.9.  ascii_chars / total_chars is the
\* correctly rounded quotient, and no quotient of lengths below 10^15 rounds
\* across 0.9, so the comparison is the one of the exact fractions.
ascii_ratio_high(text) ==
    LET ascii_chars == Cardinality({i \in DOMAIN text : IsAscii(text[i])})
        total_chars == IF text # <<>> THEN Len(text) ELSE 1
    IN  ascii_chars * ASCII_RATIO_DEN > ASCII_RATIO_NUM * total_chars

\* is_unsupported with == for != in the comparison with the sentinel
is_unsupported_inverted(detected_lang) ==
    detected_lang \notin SUPPORTED_LANGS /\ detected_lang = UNKNOWN_LANG_CODE

\* is_unsupported without the exemption of the sentinel
is_unsupported_no_sentinel(detected_lang) == detected_lang \notin SUPPORTED_LANGS

\* detected_lang not in SUPPORTED_LANGS and detected_lang != UNKNOWN_LANG_CODE
is_unsupported(detected_lang) ==
    detected_lang \notin SUPPORTED_LANGS /\ detected_lang # UNKNOWN_LANG_CODE

\* _detect_language: the safeguard applied to the selected detector's answer
ascii_safeguard(detected_lang, text) ==
    IF is_unsupported(detected_lang) /\ ascii_ratio_high(text)
    THEN <<"e", "n">>
    ELSE detected_lang

\* translate_text: the message returned for an unsupported language
unsupported_notice(detected_lang) == UNSUPPORTED_PREFIX \o detected_lang

\* detection_handler with a bare `raise` for the wrapping
detection_handler_reraise(e) == e

\* translate_text: the except clause around _detect_language
detection_handler(e) ==
    IF IsException(e)
    THEN AppError("An unexpected error occurred during language detection setup.", e)
    ELSE e

\* translate_text when self.translator.translate(text) answered with `o`
translation_result(o) ==
    IF o.kind = "return"
    THEN Returned(o.value)
    ELSE IF o.error.type = "TranslationError"
         THEN Raised(o.error)
         ELSE IF IsException(o.error)
              THEN Raised(AppError(
                       "An unexpected error occurred during the translation process.",
                       o.error))
              ELSE Raised(o.error)

\* translator_argument with the text as it is sent to the LLM detector
translator_argument_truncated(text) == detection_text(text)

\* translate_text: the argument of self.translator.translate
translator_argument(text) == text

(***************************************************************************)
(* Inputs and the answers of the collaborators.                            *)
(***************************************************************************)
Requests == {"r1", "r2"}

\* The requests of a caller that makes one call after the other.
SequentialRequests == {"r1"}

InputAlphabet == {"I", "'", "m", " ", "U+00E9"}

ShortTexts == UNION {[1..n -> InputAlphabet] : n \in 0..MaxLen}

\* n ASCII characters, one word or words of one letter, then k of U+00E9.
Filled(n, k, spaced) ==
    [i \in 1..(n + k) |->
        IF i > n THEN "U+00E9"
        ELSE IF spaced /\ i % 2 = 0 THEN " " ELSE "a"]

RatioTexts ==
    {Filled(n, 1, sp) : n \in {8, 9, 10, 19}, sp \in BOOLEAN}
        \cup {Filled(101, 0, TRUE), Filled(101, 1, FALSE), Filled(90, 12, TRUE)}

MarkerTexts ==
    UNION {{english_markers[i],
            upper(english_markers[i]),
            <<"U+00BF">> \o upper(english_markers[i]) \o <<" ", "o", "k">>}
           : i \in DOMAIN english_markers}

OtherTexts ==
    {<<"H", "o", "l", "a", ",", " ", "U+00BF", "c", "U+00F3", "m", "o", " ",
       "e", "s", "t", "U+00E1", "s", "?">>,
     <<"\n", "\t">>,
     <<" ", "U+00A0", "\n", " ">>,
     <<"U+0130", "'", "m">>}

Texts == ShortTexts \cup RatioTexts \cup MarkerTexts \cup OtherTexts

Thresholds == 1..MaxThreshold

\* completion.text of the completion client
Completions ==
    {<<"e", "n">>, <<"e", "s">>, <<"f", "r">>, <<"E", "N">>,
     <<" ", "E", "s", "\n">>, <<"F", "r", "\n">>,
     UNKNOWN_LANG_CODE, <<" ", "U", "n", "k", "n", "o", "w", "n", ".">>,
     <<"U", "N", "K", "N", "O", "W", "N", "\n">>,
     <<"'", "e", "n", "'">>, <<"e", "n", "g">>, <<"f">>, <<>>, <<"U+0130">>}

AcompleteOutcomes ==
    {Returned(c) : c \in Completions}
        \cup {Raised(Error("TimeoutError", "Request timed out.")),
              Raised(Error("CancelledError", ""))}

\* what langdetect.detect returns
Detections ==
    {<<"e", "n">>, <<"e", "s">>, <<"f", "r">>, <<"z", "h", "-", "c", "n">>,
     <<"E", "N">>, <<"f", "r", "\n">>, UNKNOWN_LANG_CODE, <<>>}

DetectOutcomes ==
    {Returned(d) : d \in Detections}
        \cup {Raised(Error("LangDetectException", "No features in text.")),
              Raised(Error("TypeError", "expected string or bytes-like object"))}

\* An exception raised by the statements of _detect_language themselves (the
\* safeguard builds a generator over the whole text).
OrchestrationErrors == {Error("MemoryError", "")}

\* what ArgentinianTranslator.translate returns
Translations ==
    {<<"c", "h", "e">>,
     <<"C", "h", "e", ",", " ", "d", "a", "l", "e", "!">>,
     <<" ", "C", "H", "E", "\n">>}

TranslateOutcomes ==
    {Returned(t) : t \in Translations}
        \cup {Raised(Error("TranslationError", "LLM returned malformed output")),
              Raised(Error("TranslationError", "Retrieval failed")),
              Raised(Error("TimeoutError", "Request timed out.")),
              Raised(Error("CancelledError", ""))}

(***************************************************************************)
(* State.                                                                  *)
(***************************************************************************)
VARIABLES
    SHORT_INPUT_WORD_THRESHOLD, \* settings.SHORT_INPUT_WORD_THRESHOLD
    pc,             \* where each request stands
    entry,          \* the method the caller called
    text,           \* the argument `text`
    detector_lang,  \* detected_lang of _detect_language: the detector's answer
    detected_lang,  \* what _detect_language returns
    raised,         \* the exception propagating out of _detect_language
    outcome,        \* how the call ended for the caller
    marker_checks,  \* runs of the marker loop
    llm_call,       \* calls of self.lang_detect_llm.acomplete
    stat_call,      \* calls of langdetect.detect
    translate_call  \* calls of self.translator.translate

vars ==
    <<SHORT_INPUT_WORD_THRESHOLD, pc, entry, text, detector_lang, detected_lang,
      raised, outcome, marker_checks, llm_call, stat_call, translate_call>>

NoCall == [n |-> 0, arg |-> <<>>, out |-> Pending]
Called(c, arg) == [n |-> c.n + 1, arg |-> arg, out |-> Pending]
Answered(c, o) == [c EXCEPT !.out = o]

Init ==
    /\ SHORT_INPUT_WORD_THRESHOLD \in Thresholds
    /\ pc = [r \in Requests |-> "idle"]
    /\ entry = [r \in Requests |-> "none"]
    /\ text = [r \in Requests |-> <<>>]
    /\ detector_lang = [r \in Requests |-> <<>>]
    /\ detected_lang = [r \in Requests |-> <<>>]
    /\ raised = [r \in Requests |-> NoError]
    /\ outcome = [r \in Requests |-> Pending]
    /\ marker_checks = [r \in Requests |-> 0]
    /\ llm_call = [r \in Requests |-> NoCall]
    /\ stat_call = [r \in Requests |-> NoCall]
    /\ translate_call = [r \in Requests |-> NoCall]

(***************************************************************************)
(* Actions.                                                                *)
(***************************************************************************)
\* The caller awaits each call before making the next one.
NoRequestInFlight == \A q \in Requests : pc[q] = "idle"

\* translate_text keeping the text in a field of the service, self.text,
\* which every request in flight then reads
translate_text_shared_text(r, t) ==
    /\ pc[r] = "idle"
    /\ entry' = [entry EXCEPT ![r] = "translate_text"]
    /\ text' = [q \in Requests |-> IF q = r \/ pc[q] \notin {"idle", "done"}
                                   THEN t ELSE text[q]]
    /\ IF is_blank(t)
       THEN /\ outcome' = [outcome EXCEPT ![r] = Returned(EMPTY_TEXT_PROMPT)]
            /\ pc' = [pc EXCEPT ![r] = "done"]
       ELSE /\ outcome' = outcome
            /\ pc' = [pc EXCEPT ![r] = "_detect_language"]
    /\ UNCHANGED <<SHORT_INPUT_WORD_THRESHOLD, detector_lang, detected_lang, raised,
                   marker_checks, llm_call, stat_call, translate_call>>

\* translate_text up to the call of _detect_language: the blank check.
translate_text(r, t) ==
    /\ pc[r] = "idle"
    /\ entry' = [entry EXCEPT ![r] = "translate_text"]
    /\ text' = [text EXCEPT ![r] = t]
    /\ IF is_blank(t)
       THEN /\ outcome' = [outcome EXCEPT ![r] = Returned(EMPTY_TEXT_PROMPT)]
            /\ pc' = [pc EXCEPT ![r] = "done"]
       ELSE /\ outcome' = outcome
            /\ pc' = [pc EXCEPT ![r] = "_detect_language"]
    /\ UNCHANGED <<SHORT_INPUT_WORD_THRESHOLD, detector_lang, detected_lang, raised,
                   marker_checks, llm_call, stat_call, translate_call>>

\* A caller calls _detect_language itself.
call_detect_language(r, t) ==
    /\ pc[r] = "idle"
    /\ entry' = [entry EXCEPT ![r] = "_detect_language"]
    /\ text' = [text EXCEPT ![r] = t]
    /\ pc' = [pc EXCEPT ![r] = "_detect_language"]
    /\ UNCHANGED <<SHORT_INPUT_WORD_THRESHOLD, detector_lang, detected_lang, raised,
                   outcome, marker_checks, llm_call, stat_call, translate_call>>

\* _detect_language up to the choice of the detector.
_detect_language(r) ==
    /\ pc[r] = "_detect_language"
    /\ marker_checks' = [marker_checks EXCEPT ![r] = @ + 1]
    /\ IF has_english_marker(text[r])
       THEN /\ detected_lang' = [detected_lang EXCEPT ![r] = <<"e", "n">>]
            /\ pc' = [pc EXCEPT ![r] = "detected"]
       ELSE /\ detected_lang' = detected_lang
            /\ pc' = [pc EXCEPT ![r] =
                        IF is_short_input(text[r], SHORT_INPUT_WORD_THRESHOLD)
                        THEN "_detect_language_llm"
                        ELSE "_detect_language_statistical"]
    /\ UNCHANGED <<SHORT_INPUT_WORD_THRESHOLD, entry, text, detector_lang, raised,
                   outcome, llm_call, stat_call, translate_call>>

\* _detect_language_llm with a budget of one completion per service: once any
\* request has called the completion client, the detector answers unknown
\* without calling it.
_detect_language_llm_budget(r) ==
    /\ pc[r] = "_detect_language_llm"
    /\ IF \E q \in Requests : q # r /\ llm_call[q].n > 0
       THEN /\ llm_call' = llm_call
            /\ detector_lang' = [detector_lang EXCEPT ![r] = UNKNOWN_LANG_CODE]
            /\ pc' = [pc EXCEPT ![r] = "safeguard"]
       ELSE /\ llm_call' = [llm_call EXCEPT ![r] = Called(@, detection_text(text[r]))]
            /\ detector_lang' = detector_lang
            /\ pc' = [pc EXCEPT ![r] = "await_acomplete"]
    /\ UNCHANGED <<SHORT_INPUT_WORD_THRESHOLD, entry, text, detected_lang, raised,
                   outcome, marker_checks, stat_call, translate_call>>

\* _detect_language_llm up to `await self.lang_detect_llm.acomplete(prompt)`.
_detect_language_llm(r) ==
    /\ pc[r] = "_detect_language_llm"
    /\ llm_call' = [llm_call EXCEPT ![r] = Called(@, detection_text(text[r]))]
    /\ pc' = [pc EXCEPT ![r] = "await_acomplete"]
    /\ UNCHANGED <<SHORT_INPUT_WORD_THRESHOLD, entry, text, detector_lang,
                   detected_lang, raised, outcome, marker_checks, stat_call,
                   translate_call>>

\* The completion client answers; _detect_language_llm runs to its end.
acomplete(r, o) ==
    /\ pc[r] = "await_acomplete"
    /\ llm_call' = [llm_call EXCEPT ![r] = Answered(@, o)]
    /\ LET res == llm_detector_result(o)
       IN  IF res.kind = "return"
           THEN /\ detector_lang' = [detector_lang EXCEPT ![r] = res.value]
                /\ raised' = raised
                /\ pc' = [pc EXCEPT ![r] = "safeguard"]
           ELSE /\ detector_lang' = detector_lang
                /\ raised' = [raised EXCEPT ![r] = res.error]
                /\ pc' = [pc EXCEPT ![r] = "detected"]
    /\ UNCHANGED <<SHORT_INPUT_WORD_THRESHOLD, entry, text, detected_lang, outcome,
                   marker_checks, stat_call, translate_call>>

\* _detect_language_statistical: detect(text) answers at once.
_detect_language_statistical(r, o) ==
    /\ pc[r] = "_detect_language_statistical"
    /\ stat_call' = [stat_call EXCEPT ![r] = Answered(Called(@, text[r]), o)]
    /\ LET res == statistical_detector_result(o)
       IN  IF res.kind = "return"
           THEN /\ detector_lang' = [detector_lang EXCEPT ![r] = res.value]
                /\ raised' = raised
                /\ pc' = [pc EXCEPT ![r] = "safeguard"]
           ELSE /\ detector_lang' = detector_lang
                /\ raised' = [raised EXCEPT ![r] = res.error]
                /\ pc' = [pc EXCEPT ![r] = "detected"]
    /\ UNCHANGED <<SHORT_INPUT_WORD_THRESHOLD, entry, text, detected_lang, outcome,
                   marker_checks, llm_call, translate_call>>

\* _detect_language after the detector returned: the ASCII safeguard.
safeguard(r) ==
    /\ pc[r] = "safeguard"
    /\ detected_lang' =
           [detected_lang EXCEPT ![r] = ascii_safeguard(detector_lang[r], text[r])]
    /\ pc' = [pc EXCEPT ![r] = "detected"]
    /\ UNCHANGED <<SHORT_INPUT_WORD_THRESHOLD, entry, text, detector_lang, raised,
                   outcome, marker_checks, llm_call, stat_call, translate_call>>

\* _detect_language after the detector returned: a statement of the
\* safeguard raises instead.
safeguard_raises(r, e) ==
    /\ pc[r] = "safeguard"
    /\ raised' = [raised EXCEPT ![r] = e]
    /\ pc' = [pc EXCEPT ![r] = "detected"]
    /\ UNCHANGED <<SHORT_INPUT_WORD_THRESHOLD, entry, text, detector_lang,
                   detected_lang, outcome, marker_checks, llm_call, stat_call,
                   translate_call>>

\* _detect_language ends for the caller that called it directly.
detect_language_ends(r) ==
    /\ pc[r] = "detected"
    /\ entry[r] = "_detect_language"
    /\ outcome' = [outcome EXCEPT ![r] =
                      IF raised[r] = NoError
                      THEN Returned(detected_lang[r])
                      ELSE Raised(raised[r])]
    /\ pc' = [pc EXCEPT ![r] = "done"]
    /\ UNCHANGED <<SHORT_INPUT_WORD_THRESHOLD, entry, text, detector_lang,
                   detected_lang, raised, marker_checks, llm_call, stat_call,
                   translate_call>>

\* translate_text after _detect_language: the except clause, the supported
\* check, and the call of the translator.
check_supported(r) ==
    /\ pc[r] = "detected"
    /\ entry[r] = "translate_text"
    /\ IF raised[r] # NoError
       THEN /\ outcome' = [outcome EXCEPT ![r] = Raised(detection_handler(raised[r]))]
            /\ pc' = [pc EXCEPT ![r] = "done"]
            /\ translate_call' = translate_call
       ELSE IF is_unsupported(detected_lang[r])
       THEN /\ outcome' =
                   [outcome EXCEPT ![r] = Returned(unsupported_notice(detected_lang[r]))]
            /\ pc' = [pc EXCEPT ![r] = "done"]
            /\ translate_call' = translate_call
       ELSE /\ outcome' = outcome
            /\ pc' = [pc EXCEPT ![r] = "await_translate"]
            /\ translate_call' =
                   [translate_call EXCEPT ![r] = Called(@, translator_argument(text[r]))]
    /\ UNCHANGED <<SHORT_INPUT_WORD_THRESHOLD, entry, text, detector_lang,
                   detected_lang, raised, marker_checks, llm_call, stat_call>>

\* translate with one retry of the translator after a TranslationError
translate_retry_once(r, o) ==
    /\ pc[r] = "await_translate"
    /\ translate_call' = [translate_call EXCEPT ![r] = Answered(@, o)]
    /\ IF o.kind = "raise" /\ o.error.type = "TranslationError"
              /\ translate_call[r].n < 2
       THEN /\ pc' = [pc EXCEPT ![r] = "detected"]
            /\ UNCHANGED outcome
       ELSE /\ outcome' = [outcome EXCEPT ![r] = translation_result(o)]
            /\ pc' = [pc EXCEPT ![r] = "done"]
    /\ UNCHANGED <<SHORT_INPUT_WORD_THRESHOLD, entry, text, detector_lang,
                   detected_lang, raised, marker_checks, llm_call, stat_call>>

\* The translator answers; translate_text runs to its end.
translate(r, o) ==
    /\ pc[r] = "await_translate"
    /\ translate_call' = [translate_call EXCEPT ![r] = Answered(@, o)]
    /\ outcome' = [outcome EXCEPT ![r] = translation_result(o)]
    /\ pc' = [pc EXCEPT ![r] = "done"]
    /\ UNCHANGED <<SHORT_INPUT_WORD_THRESHOLD, entry, text, detector_lang,
                   detected_lang, raised, marker_checks, llm_call, stat_call>>

\* The caller has the outcome; the call's frame is gone.
call_over(r) ==
    /\ pc[r] = "done"
    /\ pc' = [pc EXCEPT ![r] = "idle"]
    /\ entry' = [entry EXCEPT ![r] = "none"]
    /\ text' = [text EXCEPT ![r] = <<>>]
    /\ detector_lang' = [detector_lang EXCEPT ![r] = <<>>]
    /\ detected_lang' = [detected_lang EXCEPT ![r] = <<>>]
    /\ raised' = [raised EXCEPT ![r] = NoError]
    /\ outcome' = [outcome EXCEPT ![r] = Pending]
    /\ marker_checks' = [marker_checks EXCEPT ![r] = 0]
    /\ llm_call' = [llm_call EXCEPT ![r] = NoCall]
    /\ stat_call' = [stat_call EXCEPT ![r] = NoCall]
    /\ translate_call' = [translate_call EXCEPT ![r] = NoCall]
    /\ UNCHANGED SHORT_INPUT_WORD_THRESHOLD

Next ==
    \E r \in SequentialRequests :
        \/ NoRequestInFlight /\ \E t \in Texts : translate_text(r, t)
        \/ NoRequestInFlight /\ \E t \in Texts : call_detect_language(r, t)
        \/ _detect_language(r)
        \/ _detect_language_llm(r)
        \/ \E o \in AcompleteOutcomes : acomplete(r, o)
        \/ \E o \in DetectOutcomes : _detect_language_statistical(r, o)
        \/ safeguard(r)
        \/ \E e \in OrchestrationErrors : safeguard_raises(r, e)
        \/ detect_language_ends(r)
        \/ check_supported(r)
        \/ \E o \in TranslateOutcomes : translate(r, o)
        \/ call_over(r)

Spec == Init /\ [][Next]_vars

\* A step of a request in flight: the event loop runs a coroutine that is
\* ready, and an awaited collaborator call returns or fails.
Progress ==
    \E r \in SequentialRequests :
        \/ _detect_language(r)
        \/ _detect_language_llm(r)
        \/ \E o \in AcompleteOutcomes : acomplete(r, o)
        \/ \E o \in DetectOutcomes : _detect_language_statistical(r, o)
        \/ safeguard(r)
        \/ \E e \in OrchestrationErrors : safeguard_raises(r, e)
        \/ detect_language_ends(r)
        \/ check_supported(r)
        \/ \E o \in TranslateOutcomes : translate(r, o)

FairSpec == Spec /\ WF_vars(Progress)

\* Requests made concurrently on one service by asyncio tasks of one event
\* loop.  A task runs until it awaits: the others are then before their
\* start, at an awaited call, or after their end.
ConcurrentTexts ==
    {<<"m">>, <<"U+00E9">>, <<"M", " ", "U+00E9">>, <<"I", "'", "m">>, <<" ">>}

ConcurrentAcompleteOutcomes ==
    {Returned(<<"e", "n">>), Returned(<<"F", "r", "\n">>),
     Raised(Error("TimeoutError", "Request timed out.")),
     Raised(Error("CancelledError", ""))}

ConcurrentDetectOutcomes ==
    {Returned(<<"e", "s">>), Returned(<<"f", "r">>),
     Raised(Error("LangDetectException", "No features in text."))}

ConcurrentTranslateOutcomes ==
    {Returned(<<"c", "h", "e">>),
     Raised(Error("TranslationError", "Retrieval failed")),
     Raised(Error("TimeoutError", "Request timed out."))}

AtAwait(q) == pc[q] \in {"idle", "await_acomplete", "await_translate", "done"}

OthersAtAwait(r) == \A q \in Requests \ {r} : AtAwait(q)

NextConcurrent ==
    \E r \in Requests :
        /\ OthersAtAwait(r)
        /\ \/ \E t \in ConcurrentTexts : translate_text(r, t)
           \/ _detect_language(r)
           \/ _detect_language_llm(r)
           \/ \E o \in ConcurrentAcompleteOutcomes : acomplete(r, o)
           \/ \E o \in ConcurrentDetectOutcomes : _detect_language_statistical(r, o)
           \/ safeguard(r)
           \/ check_supported(r)
           \/ \E o \in ConcurrentTranslateOutcomes : translate(r, o)
           \/ call_over(r)

SpecConcurrent == Init /\ [][NextConcurrent]_vars

(***************************************************************************)
(* Properties.                                                             *)
(***************************************************************************)
\* _detect_language has run to its end for request r.
DetectionEnded(r) ==
    \/ pc[r] \in {"detected", "await_translate"}
    \/ pc[r] = "done" /\ marker_checks[r] > 0

\* _detect_language has returned a code for request r.
DetectionReturned(r) == DetectionEnded(r) /\ raised[r] = NoError

\* text.lower() contains one of the markers.
LoweredHasMarker(t) == \E i \in DOMAIN english_markers : Contains(lower(t), english_markers[i])

AsciiCount(t) == Cardinality({i \in DOMAIN t : IsAscii(t[i])})

\* C1: in _detect_language, for a text without an English marker, a word
\* count at or below the threshold means the LLM detector is called exactly
\* once and the statistical detector never; a word count above it means the
\* statistical detector is called exactly once and the LLM detector never.
C1_DetectorByWordCount ==
    \A r \in Requests :
        (entry[r] # "none" /\ ~LoweredHasMarker(text[r])) =>
            IF split_len(text[r]) <= SHORT_INPUT_WORD_THRESHOLD
            THEN /\ stat_call[r].n = 0
                 /\ llm_call[r].n <= 1
                 /\ DetectionEnded(r) => llm_call[r].n = 1
            ELSE /\ llm_call[r].n = 0
                 /\ stat_call[r].n <= 1
                 /\ DetectionEnded(r) => stat_call[r].n = 1

\* A text of exactly threshold words went to the LLM detector.
C1_Witness ==
    \E r \in Requests :
        /\ pc[r] = "done"
        /\ ~LoweredHasMarker(text[r])
        /\ split_len(text[r]) = SHORT_INPUT_WORD_THRESHOLD
        /\ llm_call[r].n = 1
        /\ stat_call[r].n = 0

\* C2: for a text whose lower-cased form contains an English marker,
\* _detect_language returns "en" and calls neither the LLM detector nor the
\* statistical detector.
C2_MarkerReturnsEn ==
    \A r \in Requests :
        (entry[r] # "none" /\ LoweredHasMarker(text[r])) =>
            /\ llm_call[r].n = 0
            /\ stat_call[r].n = 0
            /\ DetectionEnded(r) => detected_lang[r] = <<"e", "n">> /\ raised[r] = NoError
            /\ (pc[r] = "done" /\ entry[r] = "_detect_language") =>
                   outcome[r] = Returned(<<"e", "n">>)

\* _detect_language returned "en" for a marker in upper case inside the text.
C2_Witness ==
    \E r \in Requests :
        /\ pc[r] = "done"
        /\ entry[r] = "_detect_language"
        /\ LoweredHasMarker(text[r])
        /\ \A i \in DOMAIN english_markers : ~Contains(text[r], english_markers[i])
        /\ outcome[r] = Returned(<<"e", "n">>)

\* C3: in _detect_language, when more than 0.9 of the characters of the text
\* are below code point 128 and the selected detector returned a code that is
\* neither en, es nor the unknown sentinel, the result is "en", on the LLM
\* path and on the statistical path.
C3_AsciiOverride ==
    \A r \in Requests :
        ( /\ DetectionReturned(r)
          /\ llm_call[r].n + stat_call[r].n = 1
          /\ detector_lang[r] \notin {<<"e", "n">>, <<"e", "s">>, UNKNOWN_LANG_CODE}
          /\ text[r] # <<>>
          /\ 10 * AsciiCount(text[r]) > 9 * Len(text[r]) )
        => detected_lang[r] = <<"e", "n">>

\* The statistical detector said "fr" for a text that is 0.95 ASCII.
C3_Witness ==
    \E r \in Requests :
        /\ DetectionReturned(r)
        /\ stat_call[r].n = 1
        /\ detector_lang[r] = <<"f", "r">>
        /\ AsciiCount(text[r]) = 19
        /\ Len(text[r]) = 20
        /\ detected_lang[r] = <<"e", "n">>

\* C4: in translate_text, when the final detected code is neither en, es nor
\* the unknown sentinel, the call returns the unsupported-language notice
\* naming 'en', 'es' and the detected code, and the translator is not called.
C4_UnsupportedNotice ==
    \A r \in Requests :
        ( /\ entry[r] = "translate_text"
          /\ DetectionReturned(r)
          /\ detected_lang[r] \notin {<<"e", "n">>, <<"e", "s">>, UNKNOWN_LANG_CODE} )
        => /\ translate_call[r].n = 0
           /\ pc[r] # "await_translate"
           /\ pc[r] = "done" =>
                  outcome[r] = Returned(UNSUPPORTED_PREFIX \o detected_lang[r])

\* translate_text answered a text detected as "fr" with the notice.
C4_Witness ==
    \E r \in Requests :
        /\ entry[r] = "translate_text"
        /\ pc[r] = "done"
        /\ detected_lang[r] = <<"f", "r">>
        /\ outcome[r] = Returned(UNSUPPORTED_PREFIX \o <<"f", "r">>)
        /\ translate_call[r].n = 0

\* C5: in translate_text, a TranslationError of the translator is raised to
\* the caller unchanged, and any other exception of the translator reaches
\* the caller as an AppError whose cause is that exception, never raw.
C5_TranslatorFailures ==
    \A r \in Requests :
        (pc[r] = "done" /\ translate_call[r].out.kind = "raise") =>
            LET e == translate_call[r].out.error
            IN  IF e.type = "TranslationError"
                THEN outcome[r] = Raised(e)
                ELSE /\ outcome[r].kind = "raise"
                     /\ outcome[r].error.type = "AppError"
                     /\ outcome[r].error.cause = [type |-> e.type, msg |-> e.msg]

\* C6: neither detector raises to its caller: whatever the completion client
\* or the statistical classifier raises, the detector returns the unknown
\* sentinel.
C6_DetectorsNeverRaise ==
    \A r \in Requests :
        (llm_call[r].out.kind = "raise" \/ stat_call[r].out.kind = "raise") =>
            detector_lang[r] = UNKNOWN_LANG_CODE

C8_BlankInput ==
    \A r \in Requests :
        (entry[r] = "translate_text" /\ \A i \in DOMAIN text[r] : IsSpace(text[r][i])) =>
            /\ pc[r] = "done"
            /\ outcome[r] = Returned(EMPTY_TEXT_PROMPT)
            /\ marker_checks[r] = 0
            /\ llm_call[r].n = 0
            /\ stat_call[r].n = 0
            /\ translate_call[r].n = 0

\* translate_text answered a text of whitespace alone with the prompt.
C8_Witness ==
    \E r \in Requests :
        /\ entry[r] = "translate_text"
        /\ Len(text[r]) = 3
        /\ \A i \in DOMAIN text[r] : IsSpace(text[r][i])
        /\ outcome[r] = Returned(EMPTY_TEXT_PROMPT)

\* C9: in translate_text, for a text that is not blank, once the final
\* detected code is en, es or the unknown sentinel (also when the sentinel
\* comes from a failed detector), the translator is called: the request does
\* not end without it.
C9_SupportedOrUnknownTranslates ==
    \A r \in Requests :
        ( /\ entry[r] = "translate_text"
          /\ pc[r] \in {"await_translate", "done"}
          /\ DetectionReturned(r)
          /\ detected_lang[r] \in {<<"e", "n">>, <<"e", "s">>, UNKNOWN_LANG_CODE} )
        => /\ translate_call[r].n = 1
           /\ pc[r] = "done" => translate_call[r].out.kind # "pending"

\* The completion client timed out, the code is the sentinel, and the
\* translator was called for a text that is not ASCII.
C9_Witness ==
    \E r \in Requests :
        /\ entry[r] = "translate_text"
        /\ pc[r] = "done"
        /\ llm_call[r].out.kind = "raise"
        /\ detected_lang[r] = UNKNOWN_LANG_CODE
        /\ AsciiCount(text[r]) = 0
        /\ translate_call[r].n = 1
        /\ outcome[r].kind = "return"

\* C10: every translate_text call ends by returning a string, by raising
\* TranslationError or by raising AppError, whatever the completion client,
\* the statistical classifier and the translator do.
C10_OnlyTwoErrorKinds ==
    \A r \in Requests :
        (entry[r] = "translate_text" /\ pc[r] = "done") =>
            \/ outcome[r].kind = "return"
            \/ /\ outcome[r].kind = "raise"
               /\ outcome[r].error.type \in {"TranslationError", "AppError"}

\* C11: a cancellation or timeout error of the awaited completion call makes
\* the LLM detector return the unknown sentinel, and the request goes on to
\* the translator; a cancellation or timeout error of the translator call
\* reaches the caller as an AppError wrapping it.
C11_CancellationAndTimeout ==
    \A r \in Requests :
        /\ (llm_call[r].out.kind = "raise"
                /\ llm_call[r].out.error.type \in {"CancelledError", "TimeoutError"})
           => /\ detector_lang[r] = UNKNOWN_LANG_CODE
              /\ (entry[r] = "translate_text" /\ pc[r] = "done"
                      /\ raised[r] \notin OrchestrationErrors)
                 => translate_call[r].n = 1
        /\ (pc[r] = "done"
                /\ translate_call[r].out.kind = "raise"
                /\ translate_call[r].out.error.type \in {"CancelledError", "TimeoutError"})
           => /\ outcome[r].kind = "raise"
              /\ outcome[r].error.type = "AppError"
              /\ outcome[r].error.cause.type = translate_call[r].out.error.type

\* C12: every value _detect_language returns is two lower-case letters a-z
\* or the unknown sentinel, on every path and for every raw output of the
\* collaborators.
C12_ResultIsCodeOrUnknown ==
    \A r \in Requests :
        DetectionReturned(r) =>
            \/ detected_lang[r] = UNKNOWN_LANG_CODE
            \/ /\ Len(detected_lang[r]) = 2
               /\ detected_lang[r][1] \in LowerLetters
               /\ detected_lang[r][2] \in LowerLetters

(***************************************************************************)
(* _detect_language called twice on the same text: the caller keeps the    *)
(* first result (request r1 stays done) and calls again (request r2).      *)
(***************************************************************************)
TwiceTexts ==
    RatioTexts \cup MarkerTexts \cup OtherTexts
        \cup {<<>>, <<"m">>, <<"U+00E9">>, <<"m", " ", "U+00E9">>}

first_call(t) == NoRequestInFlight /\ call_detect_language("r1", t)

second_call ==
    /\ pc["r1"] = "done"
    /\ pc["r2"] = "idle"
    /\ call_detect_language("r2", text["r1"])

NextTwice ==
    \/ \E t \in TwiceTexts : first_call(t)
    \/ second_call
    \/ \E r \in Requests :
        \/ _detect_language(r)
        \/ _detect_language_llm(r)
        \/ \E o \in AcompleteOutcomes : acomplete(r, o)
        \/ \E o \in DetectOutcomes : _detect_language_statistical(r, o)
        \/ safeguard(r)
        \/ detect_language_ends(r)

SpecTwice == Init /\ [][NextTwice]_vars

\* C13: a second call of _detect_language on the same text takes the same
\* path as the first (same marker check, same detector, same text sent to
\* it), and when the collaborators answer it as they answered the first, it
\* ends as the first did.
C13_SecondCallSameResult ==
    (pc["r1"] = "done" /\ pc["r2"] = "done") =>
        /\ marker_checks["r2"] = marker_checks["r1"]
        /\ llm_call["r2"].n = llm_call["r1"].n
        /\ llm_call["r2"].arg = llm_call["r1"].arg
        /\ stat_call["r2"].n = stat_call["r1"].n
        /\ stat_call["r2"].arg = stat_call["r1"].arg
        /\ (llm_call["r2"].out = llm_call["r1"].out
                /\ stat_call["r2"].out = stat_call["r1"].out)
           => outcome["r2"] = outcome["r1"]

\* Both calls went to the LLM detector, got "Fr\n", and returned "en".
C13_Witness ==
    /\ pc["r1"] = "done"
    /\ pc["r2"] = "done"
    /\ llm_call["r1"].out = Returned(<<"F", "r", "\n">>)
    /\ llm_call["r2"].out = Returned(<<"F", "r", "\n">>)
    /\ outcome["r1"] = Returned(<<"e", "n">>)
    /\ outcome["r2"] = Returned(<<"e", "n">>)

\* Statements of _detect_language outside the detectors raised.
OrchestrationFailed(r) == raised[r] \in OrchestrationErrors

\* C15: in translate_text, when _detect_language itself raises an unexpected
\* exception, outside the detectors, the request ends by raising an AppError
\* whose cause is that exception, and the translator is not called.
C15_DetectionFailureIsAppError ==
    \A r \in Requests :
        (entry[r] = "translate_text" /\ OrchestrationFailed(r)) =>
            /\ translate_call[r].n = 0
            /\ pc[r] \in {"detected", "done"}
            /\ pc[r] = "done" =>
                   /\ outcome[r].kind = "raise"
                   /\ outcome[r].error.type = "AppError"
                   /\ outcome[r].error.cause =
                          [type |-> raised[r].type, msg |-> raised[r].msg]

\* translate_text ended with an AppError caused by the MemoryError of the
\* safeguard, after a detector had answered "es".
C15_Witness ==
    \E r \in Requests :
        /\ entry[r] = "translate_text"
        /\ pc[r] = "done"
        /\ detector_lang[r] = <<"e", "s">>
        /\ raised[r].type = "MemoryError"
        /\ outcome[r].error.type = "AppError"
        /\ outcome[r].error.cause.type = "MemoryError"
        /\ translate_call[r].n = 0

\* How far a request is through translate_text.
PassRank(p) ==
    CASE p = "idle" -> 0
      [] p = "_detect_language" -> 1
      [] p \in {"_detect_language_llm", "_detect_language_statistical"} -> 2
      [] p = "await_acomplete" -> 3
      [] p = "safeguard" -> 4
      [] p = "detected" -> 5
      [] p = "await_translate" -> 6
      [] p = "done" -> 7

\* At most one detector is called and at most once; the translator is called
\* at most once and only after detection has returned.
SinglePassCalls ==
    \A r \in Requests :
        /\ llm_call[r].n + stat_call[r].n <= 1
        /\ translate_call[r].n <= 1
        /\ translate_call[r].n = 1 =>
               DetectionReturned(r) /\ pc[r] \in {"await_translate", "done"}

\* A request only moves forward; once it has ended, with a value or an
\* exception, it only leaves, and nothing it recorded changes before that.
SinglePassStep ==
    \A r \in Requests :
        /\ pc'[r] # pc[r] =>
               \/ pc[r] = "done" /\ pc'[r] = "idle"
               \/ PassRank(pc'[r]) > PassRank(pc[r])
        /\ (pc[r] = "done" /\ pc'[r] = "done") =>
               /\ outcome'[r] = outcome[r]
               /\ llm_call'[r] = llm_call[r]
               /\ stat_call'[r] = stat_call[r]
               /\ translate_call'[r] = translate_call[r]

\* C14: a translate_text request is one pass: at most one detector call, at
\* most one translator call and only after detection, no step goes back, and
\* when every awaited call returns or fails the request reaches its end.
C14_SinglePass ==
    /\ []SinglePassCalls
    /\ [][SinglePassStep]_vars
    /\ \A r \in SequentialRequests :
           (entry[r] = "translate_text" /\ pc[r] # "done") ~> (pc[r] = "done")

\* A request that failed in the translator after one detector call and one
\* translator call.
C14_Witness ==
    \E r \in Requests :
        /\ entry[r] = "translate_text"
        /\ pc[r] = "done"
        /\ llm_call[r].n + stat_call[r].n = 1
        /\ translate_call[r].n = 1
        /\ translate_call[r].out.kind = "raise"
        /\ translate_call[r].out.error.type = "TranslationError"
        /\ outcome[r].kind = "raise"

\* Two lowercase ASCII letters.
TwoLetterCode(c) == Len(c) = 2 /\ \A i \in 1..2 : c[i] \in LowerLetters

\* C16: for a non-empty text without an English marker, when the detector
\* returns a two-letter code other than en and es and at most 0.9 of the
\* characters are ASCII (0.9 itself included), _detect_language returns that
\* code unchanged and translate_text returns the notice naming it, without
\* calling the translator.
C16_UnsupportedCodeKept ==
    \A r \in Requests :
        ( /\ DetectionReturned(r)
          /\ llm_call[r].n + stat_call[r].n = 1
          /\ text[r] # <<>>
          /\ ~LoweredHasMarker(text[r])
          /\ TwoLetterCode(detector_lang[r])
          /\ detector_lang[r] \notin {<<"e", "n">>, <<"e", "s">>}
          /\ 10 * AsciiCount(text[r]) <= 9 * Len(text[r]) )
        => /\ detected_lang[r] = detector_lang[r]
           /\ (entry[r] = "translate_text" /\ pc[r] = "done") =>
                  /\ outcome[r] = Returned(UNSUPPORTED_PREFIX \o detector_lang[r])
                  /\ translate_call[r].n = 0

\* translate_text returned the notice for "fr" on a text of ten characters
\* of which nine are ASCII.
C16_Witness ==
    \E r \in Requests :
        /\ entry[r] = "translate_text"
        /\ pc[r] = "done"
        /\ Len(text[r]) = 10
        /\ AsciiCount(text[r]) = 9
        /\ detector_lang[r] = <<"f", "r">>
        /\ detected_lang[r] = <<"f", "r">>
        /\ outcome[r] = Returned(UNSUPPORTED_PREFIX \o <<"f", "r">>)

\* C18: the translator is called with the caller's text exactly, not
\* stripped, not lowered and not cut to the 100 characters of the LLM
\* prompt; the value the translator returns is returned unchanged.
C18_TranslatorGetsOriginalText ==
    \A r \in Requests :
        /\ translate_call[r].n >= 1 => translate_call[r].arg = text[r]
        /\ (pc[r] = "done" /\ translate_call[r].out.kind = "return") =>
               /\ outcome[r].kind = "return"
               /\ outcome[r].value = translate_call[r].out.value

\* A text of 102 characters went to the LLM detector cut to 100 and to the
\* translator whole, and the translator's " CHE\n" came back as it was.
C18_Witness ==
    \E r \in Requests :
        /\ pc[r] = "done"
        /\ Len(text[r]) = 102
        /\ llm_call[r].n = 1
        /\ Len(llm_call[r].arg) = 100
        /\ translate_call[r].arg = text[r]
        /\ outcome[r] = Returned(<<" ", "C", "H", "E", "\n">>)

\* What _detect_language gives for text t alone, the detectors' clients
\* answering lo and so.
AloneDetection(t, w, lo, so) ==
    IF LoweredHasMarker(t)
    THEN Returned(<<"e", "n">>)
    ELSE LET d == IF split_len(t) <= w
                  THEN llm_detector_result(lo)
                  ELSE statistical_detector_result(so)
         IN  IF d.kind = "return"
             THEN Returned(ascii_safeguard(d.value, t))
             ELSE d

\* What translate_text gives for text t alone, the translator answering to.
AloneOutcome(t, w, lo, so, to) ==
    IF strip(t) = <<>>
    THEN Returned(EMPTY_TEXT_PROMPT)
    ELSE LET d == AloneDetection(t, w, lo, so)
         IN  IF d.kind = "raise"
             THEN Raised(detection_handler(d.error))
             ELSE IF is_unsupported(d.value)
                  THEN Returned(unsupported_notice(d.value))
                  ELSE translation_result(to)

\* A request that has ended has the outcome of its own text and of the
\* answers to its own calls, and its calls carried its own text.
OwnOutcome ==
    \A r \in Requests :
        /\ llm_call[r].n > 0 => llm_call[r].arg = Prefix(text[r], 100)
        /\ stat_call[r].n > 0 => stat_call[r].arg = text[r]
        /\ translate_call[r].n > 0 => translate_call[r].arg = text[r]
        /\ (entry[r] = "translate_text" /\ pc[r] = "done") =>
               outcome[r] = AloneOutcome(text[r], SHORT_INPUT_WORD_THRESHOLD,
                                         llm_call[r].out, stat_call[r].out,
                                         translate_call[r].out)

\* A step is a step of one request: nothing of any other request changes,
\* and the configuration does not change.
OneRequestStep ==
    /\ SHORT_INPUT_WORD_THRESHOLD' = SHORT_INPUT_WORD_THRESHOLD
    /\ \E r \in Requests :
           \A q \in Requests \ {r} :
               /\ pc'[q] = pc[q]
               /\ entry'[q] = entry[q]
               /\ text'[q] = text[q]
               /\ detector_lang'[q] = detector_lang[q]
               /\ detected_lang'[q] = detected_lang[q]
               /\ raised'[q] = raised[q]
               /\ outcome'[q] = outcome[q]
               /\ marker_checks'[q] = marker_checks[q]
               /\ llm_call'[q] = llm_call[q]
               /\ stat_call'[q] = stat_call[q]
               /\ translate_call'[q] = translate_call[q]

\* C17: whatever the interleaving of concurrent translate_text requests at
\* their awaited calls, each request's outcome is the one it has alone with
\* the same answers, and no request changes what belongs to another.
C17_RequestsIsolated == []OwnOutcome /\ [][OneRequestStep]_vars

\* Two requests with different texts await the translator at the same time,
\* one with "en" from the safeguard after the LLM said "fr", the other with
\* "es" from the statistical classifier.
C17_Witness ==
    /\ pc["r1"] = "await_translate"
    /\ pc["r2"] = "await_translate"
    /\ text["r1"] = <<"m">>
    /\ text["r2"] = <<"M", " ", "U+00E9">>
    /\ llm_call["r1"].out = Returned(<<"F", "r", "\n">>)
    /\ detected_lang["r1"] = <<"e", "n">>
    /\ stat_call["r2"].out = Returned(<<"e", "s">>)
    /\ detected_lang["r2"] = <<"e", "s">>

====
